---- MODULE Spec2Model ----
(***************************************************************************)
(* ScreenSync: the Coordinator (coordinator.py) that drives the update     *)
(* loop and fans colours out to the bulbs, and the Kasa bulb adapter       *)
(* (bulb_control/kasa_bulb.py) with its dedup cache and rate limiter.      *)
(***************************************************************************)
EXTENDS Integers, Sequences, FiniteSets, TLC

(***************************************************************************)
(* Python float arithmetic (IEEE-754 binary64, round-to-nearest-even) on   *)
(* the small non-negative values apply_brightness uses.  A float is        *)
(* [mant, exp] with value mant * 2^exp; mant is an unsigned integer of at  *)
(* most MantBits bits held as the tuple of its NLimbs limbs of LimbBits     *)
(* bits, least significant first.                                          *)
(***************************************************************************)
Pow2(n) == 2 ^ n

MantBits == 53
LimbBits == 16
LimbBase == Pow2(LimbBits)
NLimbs == 5

Limb(N, i) == IF i \in 1..NLimbs THEN N[i] ELSE 0

\* v * 2^s for a small v
BigOfSmallShift(v, s) ==
    LET q == s \div LimbBits
        w == v * Pow2(s % LimbBits)
        L(i) == IF i = q + 1 THEN w % LimbBase
                ELSE IF i = q + 2 THEN w \div LimbBase
                ELSE 0
    IN <<L(1), L(2), L(3), L(4), L(5)>>

\* long division by a small divisor: the remainder carried into limb i
RECURSIVE RemAbove(_, _, _)
RemAbove(N, den, i) ==
    IF i >= NLimbs THEN 0
    ELSE (RemAbove(N, den, i + 1) * LimbBase + N[i + 1]) % den

BigDivSmall(N, den) ==
    LET L(i) == (RemAbove(N, den, i) * LimbBase + N[i]) \div den
    IN <<L(1), L(2), L(3), L(4), L(5)>>

BigModSmall(N, den) == (RemAbove(N, den, 1) * LimbBase + N[1]) % den

\* multiplication by a small factor: the carry into limb i
RECURSIVE CarryIn(_, _, _)
CarryIn(N, m, i) ==
    IF i = 1 THEN 0
    ELSE (N[i - 1] * m + CarryIn(N, m, i - 1)) \div LimbBase

BigMulSmall(N, m) ==
    LET L(i) == (N[i] * m + CarryIn(N, m, i)) % LimbBase
    IN <<L(1), L(2), L(3), L(4), L(5)>>

BigInc(N) ==
    LET L(i) == IF \A j \in 1..(i - 1) : N[j] = LimbBase - 1
                THEN (N[i] + 1) % LimbBase
                ELSE N[i]
    IN <<L(1), L(2), L(3), L(4), L(5)>>

RECURSIVE BitLenSmall(_)
BitLenSmall(x) == IF x = 0 THEN 0 ELSE 1 + BitLenSmall(x \div 2)

BitLen(N) ==
    IF \A i \in 1..NLimbs : N[i] = 0 THEN 0
    ELSE LET t == CHOOSE i \in 1..NLimbs :
                      N[i] # 0 /\ \A j \in 1..NLimbs : j > i => N[j] = 0
         IN LimbBits * (t - 1) + BitLenSmall(N[t])

\* bit i of N, bit 0 the least significant
Bit(N, i) == (Limb(N, i \div LimbBits + 1) \div Pow2(i % LimbBits)) % 2

BigShiftRight(N, d) ==
    LET q == d \div LimbBits
        r == d % LimbBits
        L(i) == (Limb(N, i + q) \div Pow2(r))
                + (Limb(N, i + q + 1) % Pow2(r)) * Pow2(LimbBits - r)
    IN <<L(1), L(2), L(3), L(4), L(5)>>

\* N * 2^exp rounded to MantBits significant bits, ties to even
RoundToDouble(N, exp) ==
    LET len == BitLen(N)
        d == len - MantBits
    IN IF d <= 0 THEN [mant |-> N, exp |-> exp]
       ELSE LET kept == BigShiftRight(N, d)
                guard == Bit(N, d - 1) = 1
                sticky == \E i \in 0..(d - 2) : Bit(N, i) = 1
                up == guard /\ (sticky \/ Bit(kept, 0) = 1)
                res == IF up THEN BigInc(kept) ELSE kept
            IN IF BitLen(res) > MantBits
               THEN [mant |-> BigShiftRight(res, 1), exp |-> exp + d + 1]
               ELSE [mant |-> res, exp |-> exp + d]

\* the doublings that bring num/den up to at least 1
RECURSIVE NormShift(_, _)
NormShift(num, den) == IF num >= den THEN 0 ELSE 1 + NormShift(2 * num, den)

\* float(num) / float(den) for small positive integers num <= den: the
\* correctly rounded quotient
FloatDiv(num, den) ==
    LET s == (MantBits - 1) + NormShift(num, den)
        N == BigOfSmallShift(num, s)
        Q == BigDivSmall(N, den)
        rem == BigModSmall(N, den)
        up == 2 * rem > den \/ (2 * rem = den /\ Bit(Q, 0) = 1)
        res == IF up THEN BigInc(Q) ELSE Q
    IN RoundToDouble(res, 0 - s)

\* float(m) * f for a small non-negative integer m
FloatMulInt(m, f) == RoundToDouble(BigMulSmall(f.mant, m), f.exp)

\* int(f) for a non-negative float below 2^LimbBits: truncation
FloatToInt(f) ==
    IF f.exp >= 0 THEN f.mant[1] * Pow2(f.exp)
    ELSE BigShiftRight(f.mant, 0 - f.exp)[1]

(***************************************************************************)
(* Bounds and inputs                                                       *)
(***************************************************************************)
NBulbs == 2          \* bulb objects
MaxLoops == 2        \* run_update_loop threads alive at once
MaxDispatch == 2     \* per-tick set_color threads alive at once
MaxFinal == 1        \* set_final_colors threads alive at once
MaxCalls == 3        \* calls of start, stop and update_bulbs in a run
BrightnessSlack == 50  \* how far outside 1..100 a set_brightness argument goes

None == "None"
\* a free thread slot, a colour not set, an attribute not set
NoThread == [pc |-> "none"]
NoCall == [pc |-> "none"]
NoColor == <<>>
Unset == {}
Bulbs == 1..NBulbs
AllBulbs == [i \in 1..NBulbs |-> i]
\* what the screen may show in a zone
ScreenColors == {<<255, 220, 150>>, <<100, 200, 50>>}
ModeArgs == {"normal", "shooter"}
BrightnessArgs == {50, 150}
\* the same for the runs that follow the Coordinator through start, stop and
\* update_bulbs
LifeScreen == {<<255, 220, 150>>}
\* the lists handed to Coordinator(...) and update_bulbs(...) in those runs
LifeLists == {<<b>> : b \in Bulbs}
LifeBrightness == {150}
MaxLifeDispatch == 1

\* KasaBulbControl.placement, fixed at construction
Placement(b) ==
    IF b = 1 THEN "center-left" ELSE IF b = 2 THEN "center-right" ELSE "top"

VARIABLES
    running,        \* Coordinator.running
    mode,           \* Coordinator.mode
    brightness,     \* Coordinator.brightness
    bulbs,          \* Coordinator.bulbs, a list of bulb objects
    update_thread,  \* Coordinator.update_thread: {the loop thread}, {} while unset
    caller,         \* the thread that calls the Coordinator's methods
    calls,          \* the calls of start, stop and update_bulbs made so far
    loops,          \* run_update_loop threads
    workers,        \* threads started by update_bulb_color
    finals,         \* set_final_colors threads
    device,         \* per bulb: what connect() has set: device, light_module
    last_color,     \* per bulb: KasaBulbControl.last_color
    limiter,        \* per bulb: its RateLimiter
    owed,           \* bulbs of a stopped set, set_color(shutdown colour) not called since
    escaped,        \* an exception left set_color
    ticklog,        \* per loop thread: what its current or last tick sampled and dispatched
    unit,           \* a direct call of a pure method and its result
    call            \* a direct, sequential call of a bulb method

vars == <<running, mode, brightness, bulbs, update_thread, caller, calls, loops, workers,
          finals, device, last_color, limiter, owed, escaped, ticklog, unit, call>>

coordVars == <<running, mode, brightness, bulbs, update_thread>>
threadVars == <<loops, workers, finals>>
bulbVars == <<device, last_color, limiter, owed, escaped>>
harness == <<calls, ticklog, unit, call>>

(***************************************************************************)
(* Coordinator: pure methods                                               *)
(***************************************************************************)
\* set_brightness: max(1, min(100, brightness))
Min(a, b) == IF a < b THEN a ELSE b
Max(a, b) == IF a > b THEN a ELSE b

\* a set_brightness without the lower clamp
ClampBrightness_NoFloor(b) == Min(100, b)

ClampBrightness(b) == Max(1, Min(100, b))

\* apply_brightness: multiplier = brightness / 100.0; int(channel * multiplier)
ScaleChannel(c, p) == FloatToInt(FloatMulInt(c, FloatDiv(p, 100)))

ApplyBrightness(color, p) ==
    <<ScaleChannel(color[1], p), ScaleChannel(color[2], p), ScaleChannel(color[3], p)>>

\* apply_brightness on what the screen shows, tabulated
Scaled == [raw \in ScreenColors |-> [p \in 1..100 |-> ApplyBrightness(raw, p)]]

\* stop: warm_yellow_dimmed = (int(255 * 0.5), int(220 * 0.5), int(150 * 0.5))
Half == FloatDiv(1, 2)
ShutdownColor ==
    <<FloatToInt(FloatMulInt(255, Half)), FloatToInt(FloatMulInt(220, Half)),
      FloatToInt(FloatMulInt(150, Half))>>

(***************************************************************************)
(* KasaBulbControl.connect, by what it leaves behind: nothing (every       *)
(* attempt failed), the device without a light module, or both             *)
(***************************************************************************)
ConnectStates == {"none", "no_light", "connected"}

\* self.device
DeviceSet(b) == device[b] # "none"

\* self.device and self.light_module
Connected(b) == device[b] = "connected"

(***************************************************************************)
(* KasaBulbControl.set_color, in two steps: the checks up to is_allowed(), *)
(* then the device command.                                                *)
(***************************************************************************)
\* RateLimiter.is_allowed(): true once the minimum interval has elapsed since
\* the last allowed call
IsAllowed(b) == limiter[b] = "ready"

\* a set_color that does not consult its RateLimiter
EnterOutcome_Ungated(b, c) ==
    IF c = last_color[b] THEN "dedup"
    ELSE IF ~Connected(b) THEN "unconnected"
    ELSE "send"

\* lines 94-101: what the call does next
EnterOutcome(b, c) ==
    IF c = last_color[b] THEN "dedup"
    ELSE IF ~Connected(b) THEN "unconnected"
    ELSE IF IsAllowed(b) THEN "send"
    ELSE "denied"

\* is_allowed() records the allowed call; it is consulted only past both returns
LimiterAfterEnter(b, c) ==
    IF EnterOutcome(b, c) = "send" THEN [limiter EXCEPT ![b] = "cooling"] ELSE limiter

\* a set_color that stores the colour whether or not set_hsv returned
LastColorAfterSend_Always(b, c, ok) == [last_color EXCEPT ![b] = c]

\* a set_color that never stores the colour it sent
LastColorAfterSend_Never(b, c, ok) == last_color

\* lines 102-116: set_hsv is attempted; last_color is stored when it returned
LastColorAfterSend(b, c, ok) ==
    IF ok THEN [last_color EXCEPT ![b] = c] ELSE last_color

\* a set_color without its try/except
EscapesSetColor_NoExcept(ok) == ~ok

\* the except clause of set_color catches what set_hsv raises
EscapesSetColor(ok) == FALSE

\* set_color has been called on b with the shutdown colour, whatever comes of it
OwedAfterEnter(b, c) == IF c = ShutdownColor THEN owed \ {b} ELSE owed

SetColorEnter(b, c) ==
    /\ limiter' = LimiterAfterEnter(b, c)
    /\ owed' = OwedAfterEnter(b, c)
    /\ UNCHANGED <<device, last_color, escaped>>

SetColorSend(b, c, ok) ==
    /\ last_color' = LastColorAfterSend(b, c, ok)
    /\ escaped' = (escaped \/ EscapesSetColor(ok))
    /\ UNCHANGED <<device, limiter, owed>>

\* the RateLimiter's minimum interval elapses
IntervalElapses(b) ==
    /\ limiter[b] = "cooling"
    /\ limiter' = [limiter EXCEPT ![b] = "ready"]
    /\ UNCHANGED <<coordVars, caller, threadVars, device, last_color, owed,
                   escaped, harness>>

(***************************************************************************)
(* Threads                                                                 *)
(***************************************************************************)
Idle == [pc |-> "idle", op |-> None, arg |-> None, was |-> FALSE]

NewLoop == [pc |-> "check", tmode |-> None, todo |-> <<>>, color |-> NoColor]

\* the record of a tick: whether the loop has begun an odd number of ticks,
\* the tick's mode, the process_screen_zone calls made, what the
\* centre showed (shooter mode), the update_bulb_color calls made with what
\* the screen showed for each, and how the tick ended
NoTick ==
    [odd |-> FALSE, tmode |-> None, samples |-> 0, center |-> NoColor, log |-> <<>>,
     tick |-> None]

\* a loop whose except clause would let it end
AfterTickError_LoopEnds == NoThread

\* lines 87-90: the error is caught inside the while; the loop is back at its
\* test of self.running
AfterTickError == NewLoop

LiveLoops == {l \in 1..MaxLoops : loops[l] # NoThread}
LiveWorkers == {w \in 1..MaxDispatch : workers[w] # NoThread}
LiveFinals == {f \in 1..MaxFinal : finals[f] # NoThread}

FreeSlots(ts) == {i \in DOMAIN ts : ts[i] = NoThread}
FirstFree(ts) == CHOOSE i \in FreeSlots(ts) : \A j \in FreeSlots(ts) : i <= j

\* threading.Thread(target=self.run_update_loop).start()
SpawnLoop(ls) == [ls EXCEPT ![FirstFree(ls)] = NewLoop]

(***************************************************************************)
(* Coordinator.run_update_loop                                             *)
(***************************************************************************)
\* the zone a tick samples for bulb b
TickZone(tmode, b) == IF tmode = "shooter" THEN "center" ELSE Placement(b)

\* lines 64-74 / 79: while self.running; the tick starts, and in shooter mode
\* the centre is sampled once
LoopCheck(l, screen, observe) ==
    /\ loops[l].pc = "check"
    /\ IF running
       THEN \/ \E raw \in screen :
                 /\ loops' = [loops EXCEPT ![l] =
                        IF mode = "shooter"
                        THEN [NewLoop EXCEPT !.pc = "tick", !.tmode = "shooter",
                                             !.todo = bulbs,
                                             !.color = Scaled[raw][brightness]]
                        ELSE [NewLoop EXCEPT !.pc = "tick", !.tmode = "normal",
                                             !.todo = bulbs]]
                 /\ ticklog' =
                        IF observe
                        THEN [ticklog EXCEPT ![l] =
                                 IF mode = "shooter"
                                 THEN [NoTick EXCEPT !.odd = ~ticklog[l].odd,
                                                     !.tmode = mode, !.samples = 1,
                                                     !.center = raw]
                                 ELSE [NoTick EXCEPT !.odd = ~ticklog[l].odd,
                                                     !.tmode = mode]]
                        ELSE ticklog
            \/ \* record_update or process_screen_zone raised: lines 87-90
               /\ loops' = [loops EXCEPT ![l] = AfterTickError]
               /\ ticklog' = IF observe
                             THEN [ticklog EXCEPT ![l] =
                                      [NoTick EXCEPT !.odd = ~ticklog[l].odd,
                                                     !.tmode = mode, !.tick = "aborted"]]
                             ELSE ticklog
       ELSE /\ loops' = [loops EXCEPT ![l] = NoThread]
            /\ ticklog' = IF observe THEN [ticklog EXCEPT ![l] = NoTick] ELSE ticklog
    /\ UNCHANGED <<coordVars, caller, workers, finals, bulbVars, calls, unit, call>>

\* threading.Thread(target=update_bulb).start() for bulb b; when observed, the
\* threads of earlier ticks still alive for b are marked stale
Dispatched(b, c, observe) ==
    [w \in DOMAIN workers |->
        IF w = FirstFree(workers)
        THEN [bulb |-> b, color |-> c, pc |-> "enter", stale |-> FALSE]
        ELSE IF observe /\ workers[w] # NoThread /\ workers[w].bulb = b
        THEN [workers[w] EXCEPT !.stale = TRUE]
        ELSE workers[w]]

\* a shooter tick that samples anew for each bulb
TickColor_PerBulb(lp, raw) == Scaled[raw][brightness]

\* the colour a tick dispatches to its next bulb, given what the screen shows
TickColor(lp, raw) ==
    IF lp.tmode = "shooter" THEN lp.color ELSE Scaled[raw][brightness]

\* the process_screen_zone calls a tick makes for one bulb
BulbSamples(tmode) == IF tmode = "shooter" THEN 0 ELSE 1

\* lines 74-76 / 79-83 with update_bulb_color: one bulb of the tick
LoopDispatch(l, screen, cap, observe) ==
    /\ loops[l].pc = "tick"
    /\ LET lp == loops[l]
           b == Head(lp.todo)
           rest == Tail(lp.todo)
       IN \/ /\ Cardinality(LiveWorkers) < cap
             /\ \E raw \in screen :
                  LET c == TickColor(lp, raw)
                  IN /\ workers' = Dispatched(b, c, observe)
                     /\ loops' = [loops EXCEPT ![l] =
                            IF rest = <<>> THEN NewLoop ELSE [@ EXCEPT !.todo = rest]]
                     /\ ticklog' = IF observe
                            THEN [ticklog EXCEPT ![l] =
                                [@ EXCEPT !.samples = @ + BulbSamples(lp.tmode),
                                          !.log = Append(@, [bulb |-> b,
                                                             zone |-> TickZone(lp.tmode, b),
                                                             raw |-> IF lp.tmode = "shooter"
                                                                     THEN ticklog[l].center
                                                                     ELSE raw,
                                                             color |-> c]),
                                          !.tick = IF rest = <<>> THEN "done" ELSE None]]
                            ELSE ticklog
          \/ \* process_screen_zone raised in normal mode: the tick is abandoned
             /\ lp.tmode = "normal"
             /\ loops' = [loops EXCEPT ![l] = AfterTickError]
             /\ ticklog' = IF observe
                           THEN [ticklog EXCEPT ![l] =
                                    [@ EXCEPT !.samples = @ + 1, !.tick = "aborted"]]
                           ELSE ticklog
             /\ UNCHANGED workers
    /\ UNCHANGED <<coordVars, caller, finals, bulbVars, calls, unit, call>>

(***************************************************************************)
(* The threads that run bulb.set_color                                     *)
(***************************************************************************)
\* a dispatch thread: bulb.set_color(*color), up to is_allowed()
WorkerEnter(w) ==
    /\ workers[w].pc = "enter"
    /\ LET b == workers[w].bulb
           c == workers[w].color
       IN /\ SetColorEnter(b, c)
          /\ workers' = [workers EXCEPT ![w] =
                 IF EnterOutcome(b, c) = "send" THEN [@ EXCEPT !.pc = "send"] ELSE NoThread]
    /\ UNCHANGED <<coordVars, caller, loops, finals, harness>>

\* a dispatch thread: the device command returns or raises
WorkerSend(w) ==
    /\ workers[w].pc = "send"
    /\ \E ok \in BOOLEAN :
         /\ SetColorSend(workers[w].bulb, workers[w].color, ok)
         /\ workers' = [workers EXCEPT ![w] =
                IF ok THEN NoThread ELSE [@ EXCEPT !.pc = "except"]]
    /\ UNCHANGED <<coordVars, caller, loops, finals, harness>>

\* a dispatch thread: lines 115-116, the except clause, and the thread ends
WorkerExcept(w) ==
    /\ workers[w].pc = "except"
    /\ workers' = [workers EXCEPT ![w] = NoThread]
    /\ UNCHANGED <<coordVars, caller, loops, finals, bulbVars, harness>>

\* set_final_colors, line 119: for bulb in self.bulbs
FinalInit(f) ==
    /\ finals[f].pc = "init"
    /\ finals' = [finals EXCEPT ![f] =
           IF bulbs = <<>> THEN NoThread ELSE [pc |-> "enter", todo |-> bulbs]]
    /\ UNCHANGED <<coordVars, caller, loops, workers, bulbVars, harness>>

\* set_final_colors, line 121: bulb.set_color(*warm_yellow_dimmed), the checks
FinalEnter(f) ==
    /\ finals[f].pc = "enter"
    /\ LET b == Head(finals[f].todo)
           rest == Tail(finals[f].todo)
       IN /\ SetColorEnter(b, ShutdownColor)
          /\ finals' = [finals EXCEPT ![f] =
                 IF EnterOutcome(b, ShutdownColor) = "send" THEN [@ EXCEPT !.pc = "send"]
                 ELSE IF rest = <<>> THEN NoThread
                 ELSE [@ EXCEPT !.todo = rest]]
    /\ UNCHANGED <<coordVars, caller, loops, workers, harness>>

\* set_final_colors, line 121: the device command returns or raises
FinalSend(f) ==
    /\ finals[f].pc = "send"
    /\ LET b == Head(finals[f].todo)
           rest == Tail(finals[f].todo)
       IN /\ \E ok \in BOOLEAN : SetColorSend(b, ShutdownColor, ok)
          /\ finals' = [finals EXCEPT ![f] =
                 IF rest = <<>> THEN NoThread ELSE [pc |-> "enter", todo |-> rest]]
    /\ UNCHANGED <<coordVars, caller, loops, workers, harness>>

(***************************************************************************)
(* The Coordinator's methods, called by one thread                         *)
(***************************************************************************)
Returned(op, arg, was) == [pc |-> "ret", op |-> op, arg |-> arg, was |-> was]

\* the connected bulbs of the current set
ConnectedBulbs == {bulbs[i] : i \in {j \in DOMAIN bulbs : Connected(bulbs[j])}}

\* start(), lines 53-56, on the threads: n loops are started one after the other
RECURSIVE StartLoops(_, _)
StartLoops(ls, n) == IF n = 0 THEN ls ELSE StartLoops(SpawnLoop(ls), n - 1)

\* how many times a call of start() starts a loop
StartSpawns == 1

\* how many times update_bulbs calls start(): line 34, then line 36 as
\* self.running is true after line 34
UpdateBulbsStarts == 2

\* update_bulbs, line 31: whether stop() is called first
UpdateBulbsStops(isRunning) == isRunning

Start ==
    /\ caller.pc = "idle"
    /\ calls < MaxCalls
    /\ Cardinality(FreeSlots(loops)) >= StartSpawns
    /\ running' = TRUE
    /\ loops' = StartLoops(loops, StartSpawns)
    /\ update_thread' = {FirstFree(StartLoops(loops, StartSpawns - 1))}
    /\ caller' = Idle
    /\ calls' = calls + 1
    /\ UNCHANGED <<mode, brightness, bulbs, workers, finals, bulbVars, ticklog, unit,
                   call>>

\* stop(), lines 95-98: the flag is cleared, then self.update_thread is read
StopEntry(op, arg) ==
    /\ running' = FALSE
    /\ owed' = IF running THEN owed \cup ConnectedBulbs ELSE owed
    /\ caller' = IF update_thread = Unset
                 THEN [pc |-> "raised", op |-> op, arg |-> arg, was |-> running]
                 ELSE [pc |-> "stop_join", op |-> op, arg |-> arg, was |-> running]
    /\ calls' = calls + 1
    /\ UNCHANGED <<mode, brightness, bulbs, update_thread, threadVars, device,
                   last_color, limiter, escaped, ticklog, unit, call>>

Stop ==
    /\ caller.pc = "idle"
    /\ calls < MaxCalls
    /\ StopEntry("stop", None)

\* a join without a timeout returns only when the thread has ended
JoinReturns_WhenEnded == LiveLoops = {} /\ LiveWorkers = {}

\* lines 100, 109: join(timeout=...) returns whether or not the thread has ended
JoinReturns == TRUE

\* stop(), lines 98-133: each join has returned or timed out; the final
\* colours are handed to a new daemon thread
StopFinish ==
    /\ caller.pc = "stop_join"
    /\ JoinReturns
    /\ FreeSlots(finals) # {}
    /\ finals' = [finals EXCEPT ![FirstFree(finals)] = [pc |-> "init", todo |-> <<>>]]
    /\ caller' = IF caller.op = "stop" THEN Returned("stop", None, caller.was)
                 ELSE [caller EXCEPT !.pc = "ub_assign"]
    /\ UNCHANGED <<coordVars, loops, workers, bulbVars, harness>>

\* update_bulbs, lines 31-32
UpdateBulbs(new) ==
    /\ caller.pc = "idle"
    /\ calls < MaxCalls
    /\ IF UpdateBulbsStops(running)
       THEN StopEntry("update_bulbs", new)
       ELSE /\ caller' = [pc |-> "ub_assign", op |-> "update_bulbs", arg |-> new,
                          was |-> running]
            /\ calls' = calls + 1
            /\ UNCHANGED <<coordVars, threadVars, bulbVars, ticklog, unit, call>>

\* update_bulbs, lines 33-36
UpdateBulbsAssign ==
    /\ caller.pc = "ub_assign"
    /\ Cardinality(FreeSlots(loops)) >= UpdateBulbsStarts
    /\ bulbs' = caller.arg
    /\ IF UpdateBulbsStarts > 0
       THEN /\ running' = TRUE
            /\ loops' = StartLoops(loops, UpdateBulbsStarts)
            /\ update_thread' = {FirstFree(StartLoops(loops, UpdateBulbsStarts - 1))}
       ELSE UNCHANGED <<running, loops, update_thread>>
    /\ caller' = Returned("update_bulbs", caller.arg, caller.was)
    /\ UNCHANGED <<mode, brightness, workers, finals, bulbVars, harness>>

SetMode(m) ==
    /\ caller.pc = "idle"
    /\ mode' = m
    /\ UNCHANGED <<running, brightness, bulbs, update_thread, caller, threadVars,
                   bulbVars, harness>>

SetBrightness(b) ==
    /\ caller.pc = "idle"
    /\ brightness' = ClampBrightness(b)
    /\ UNCHANGED <<running, mode, bulbs, update_thread, caller, threadVars, bulbVars,
                   harness>>

\* the call has returned (or raised) and the caller goes on
Return ==
    /\ caller.pc \in {"ret", "raised"}
    /\ caller' = Idle
    /\ UNCHANGED <<coordVars, threadVars, bulbVars, harness>>

(***************************************************************************)
(* The program: Coordinator(bulbs, color_processing) over bulbs whose      *)
(* connect() has succeeded or failed                                       *)
(***************************************************************************)
InitWith(list, devs) ==
    /\ running = FALSE
    /\ mode = "normal"
    /\ brightness = 100
    /\ bulbs = list
    /\ update_thread = Unset
    /\ caller = Idle
    /\ calls = 0
    /\ loops = [l \in 1..MaxLoops |-> NoThread]
    /\ workers = [w \in 1..MaxDispatch |-> NoThread]
    /\ finals = [f \in 1..MaxFinal |-> NoThread]
    /\ device = devs
    /\ last_color = [b \in Bulbs |-> NoColor]
    /\ limiter = [b \in Bulbs |-> "ready"]
    /\ owed = {}
    /\ escaped = FALSE
    /\ ticklog = [l \in 1..MaxLoops |-> NoTick]
    /\ unit = NoCall
    /\ call = NoCall

AllConnected == [b \in Bulbs |-> "connected"]

Init == InitWith(<<1>>, AllConnected)

Next ==
    \/ Start
    \/ Stop
    \/ StopFinish
    \/ \E new \in LifeLists : UpdateBulbs(new)
    \/ UpdateBulbsAssign
    \/ \E m \in ModeArgs : SetMode(m)
    \/ \E b \in LifeBrightness : SetBrightness(b)
    \/ Return
    \/ \E l \in 1..MaxLoops : LoopCheck(l, LifeScreen, FALSE)
    \/ \E l \in 1..MaxLoops : LoopDispatch(l, LifeScreen, MaxLifeDispatch, FALSE)
    \/ \E w \in 1..MaxDispatch : WorkerEnter(w)
    \/ \E w \in 1..MaxDispatch : WorkerSend(w)
    \/ \E w \in 1..MaxDispatch : WorkerExcept(w)
    \/ \E f \in 1..MaxFinal : FinalInit(f)
    \/ \E f \in 1..MaxFinal : FinalEnter(f)
    \/ \E f \in 1..MaxFinal : FinalSend(f)
    \/ \E b \in Bulbs : IntervalElapses(b)

Spec == Init /\ [][Next]_vars

(***************************************************************************)
(* The ticks of one update loop over the full bulb list, with every screen *)
(* colour; the brightness is chosen before the one call of start().        *)
(***************************************************************************)
InitTick == InitWith(AllBulbs, AllConnected)

StartStopped == ~running /\ Start

SetBrightnessStopped(b) == ~running /\ SetBrightness(b)

NextTick ==
    \/ StartStopped
    \/ \E m \in ModeArgs : SetMode(m)
    \/ \E b \in BrightnessArgs : SetBrightnessStopped(b)
    \/ \E l \in 1..MaxLoops : LoopCheck(l, ScreenColors, TRUE)
    \/ \E l \in 1..MaxLoops : LoopDispatch(l, ScreenColors, MaxDispatch, TRUE)
    \/ \E w \in 1..MaxDispatch : WorkerEnter(w)
    \/ \E w \in 1..MaxDispatch : WorkerSend(w)
    \/ \E w \in 1..MaxDispatch : WorkerExcept(w)
    \/ \E b \in Bulbs : IntervalElapses(b)

SpecTick == InitTick /\ [][NextTick]_vars

WorkerStep(w) == WorkerEnter(w) \/ WorkerSend(w) \/ WorkerExcept(w)

\* the same over a screen of one colour, with set_brightness called at any
\* moment of a tick
NextBright ==
    \/ StartStopped
    \/ \E m \in ModeArgs : SetMode(m)
    \/ \E b \in BrightnessArgs : SetBrightness(b)
    \/ \E l \in 1..MaxLoops : LoopCheck(l, LifeScreen, TRUE)
    \/ \E l \in 1..MaxLoops : LoopDispatch(l, LifeScreen, MaxDispatch, TRUE)
    \/ \E w \in 1..MaxDispatch : WorkerStep(w)
    \/ \E b \in Bulbs : IntervalElapses(b)

SpecBright == InitTick /\ [][NextBright]_vars

(***************************************************************************)
(* One coordinator over one bulb, started and stopped, its ticks counted.  *)
(* SpecLoopFair: the loop and dispatch threads get to run; a loop is not   *)
(* held up for ever by the bound on the dispatch threads alive at once,    *)
(* which the code does not have.                                           *)
(* SpecStopFair: only the caller gets to run; a loop or a dispatch thread  *)
(* may hang for ever.                                                      *)
(***************************************************************************)
\* stop(), called when its set_final_colors thread can be started
StopNow == FreeSlots(finals) # {} /\ Stop

LoopStep(l) ==
    \/ LoopCheck(l, LifeScreen, TRUE)
    \/ LoopDispatch(l, LifeScreen, MaxLifeDispatch, TRUE)

NextLoop ==
    \/ StartStopped
    \/ StopNow
    \/ StopFinish
    \/ Return
    \/ \E m \in ModeArgs : SetMode(m)
    \/ \E l \in 1..MaxLoops : LoopStep(l)
    \/ \E w \in 1..MaxDispatch : WorkerStep(w)
    \/ \E f \in 1..MaxFinal : FinalInit(f)
    \/ \E f \in 1..MaxFinal : FinalEnter(f)
    \/ \E f \in 1..MaxFinal : FinalSend(f)
    \/ \E b \in Bulbs : IntervalElapses(b)

SpecLoopFair ==
    /\ Init
    /\ [][NextLoop]_vars
    /\ \A l \in 1..MaxLoops : SF_vars(LoopStep(l))
    /\ \A w \in 1..MaxDispatch : WF_vars(WorkerStep(w))

SpecStopFair == Init /\ [][NextLoop]_vars /\ WF_vars(StopFinish)

(***************************************************************************)
(* Direct calls of the pure methods on a new Coordinator:                  *)
(* set_brightness(b), then apply_brightness(color)                         *)
(***************************************************************************)
UnitBrightnessArgs == (0 - BrightnessSlack)..(100 + BrightnessSlack)
Channels == 0..255
UnitColors ==
    {<<c, c, c>> : c \in Channels}
        \cup {<<255, 220, 150>>, <<100, 200, 50>>, <<0, 90, 180>>}

UnitSetBrightness(b) ==
    /\ unit.pc = "none"
    /\ brightness' = ClampBrightness(b)
    /\ unit' = [pc |-> "set", arg |-> b]
    /\ UNCHANGED <<running, mode, bulbs, update_thread, caller, calls, threadVars,
                   bulbVars, ticklog, call>>

UnitApplyBrightness(color) ==
    /\ unit.pc = "set"
    /\ unit' = [pc |-> "applied", arg |-> color,
                val |-> ApplyBrightness(color, brightness)]
    /\ UNCHANGED <<coordVars, caller, calls, threadVars, bulbVars, ticklog, call>>

NextUnit ==
    \/ \E b \in UnitBrightnessArgs : UnitSetBrightness(b)
    \/ \E color \in UnitColors : UnitApplyBrightness(color)

SpecUnit == InitTick /\ [][NextUnit]_vars

(***************************************************************************)
(* Direct calls of KasaBulbControl.set_color, one after the other, on      *)
(* bulbs whose connect() has succeeded or failed                           *)
(***************************************************************************)
BulbColors == ScreenColors \cup {ShutdownColor}

InitBulb == \E devs \in [Bulbs -> ConnectStates] : InitWith(AllBulbs, devs)

\* what is remembered of the call before: its bulb, colour, the set_hsv
\* commands it issued and those that returned
Summary(c) ==
    IF c.pc = "none" THEN NoCall
    ELSE [pc |-> "done", bulb |-> c.bulb, color |-> c.color, cmds |-> c.cmds,
          oks |-> c.oks]

CallSetColor(b, c) ==
    /\ call.pc \in {"none", "done"}
    /\ call' = [pc |-> "enter", op |-> "set_color", bulb |-> b, color |-> c,
                outcome |-> None, limit |-> None, cmds |-> 0, oks |-> 0,
                entry |-> last_color[b], ret |-> None, prev |-> Summary(call)]
    /\ UNCHANGED <<coordVars, caller, calls, threadVars, bulbVars, ticklog, unit>>

CallEnter ==
    /\ call.pc = "enter"
    /\ SetColorEnter(call.bulb, call.color)
    /\ call' = [call EXCEPT
                   !.outcome = EnterOutcome(call.bulb, call.color),
                   !.limit = limiter[call.bulb],
                   !.pc = IF EnterOutcome(call.bulb, call.color) = "send"
                          THEN "send" ELSE "done"]
    /\ UNCHANGED <<coordVars, caller, calls, threadVars, ticklog, unit>>

CallSend ==
    /\ call.pc = "send"
    /\ \E ok \in BOOLEAN :
         /\ SetColorSend(call.bulb, call.color, ok)
         /\ call' = [call EXCEPT !.pc = "done", !.cmds = 1,
                                 !.oks = IF ok THEN 1 ELSE 0]
    /\ UNCHANGED <<coordVars, caller, calls, threadVars, ticklog, unit>>

NextBulb ==
    \/ \E b \in Bulbs : \E c \in BulbColors : CallSetColor(b, c)
    \/ CallEnter
    \/ CallSend
    \/ \E b \in Bulbs : IntervalElapses(b)

SpecBulb == InitBulb /\ [][NextBulb]_vars

(***************************************************************************)
(* Direct calls of every method of KasaBulbControl, one after the other    *)
(***************************************************************************)
BulbMethods == {"turn_off", "turn_on", "set_brightness", "status"}

\* a method that issues a device command whatever connect() has left
MethodSends_Unguarded(op, b) == TRUE

\* lines 120, 129, 143, 151: whether the method goes on to its device command
MethodSends(op, b) == IF op = "set_brightness" THEN Connected(b) ELSE DeviceSet(b)

\* lines 124, 133, 146, 155: the except clause catches what the command raises
EscapesMethod(op, ok) == FALSE

\* what the method returns: status returns sys_info when update() returned
MethodReturns(op, ok) == IF op = "status" /\ ok THEN "sys_info" ELSE None

CallMethod(op, b) ==
    /\ call.pc \in {"none", "done"}
    /\ call' = [pc |-> IF MethodSends(op, b) THEN "command" ELSE "done",
                op |-> op, bulb |-> b, color |-> NoColor, outcome |-> None,
                limit |-> None, cmds |-> 0, oks |-> 0, entry |-> last_color[b],
                ret |-> None, prev |-> Summary(call)]
    /\ UNCHANGED <<coordVars, caller, calls, threadVars, bulbVars, ticklog, unit>>

CallMethodCommand ==
    /\ call.pc = "command"
    /\ \E ok \in BOOLEAN :
         /\ call' = [call EXCEPT !.pc = "done", !.cmds = 1,
                                 !.oks = IF ok THEN 1 ELSE 0,
                                 !.ret = MethodReturns(call.op, ok)]
         /\ escaped' = (escaped \/ EscapesMethod(call.op, ok))
    /\ UNCHANGED <<coordVars, caller, calls, threadVars, device, last_color, limiter,
                   owed, ticklog, unit>>

NextDevice ==
    \/ \E b \in Bulbs : \E c \in BulbColors : CallSetColor(b, c)
    \/ CallEnter
    \/ CallSend
    \/ \E op \in BulbMethods : \E b \in Bulbs : CallMethod(op, b)
    \/ CallMethodCommand
    \/ \E b \in Bulbs : IntervalElapses(b)

SpecDevice == InitBulb /\ [][NextDevice]_vars

(***************************************************************************)
(* Properties of the lifecycle: start, stop, update_bulbs (Spec)           *)
(***************************************************************************)
\* no thread is left that could still call set_color
AtRest ==
    /\ caller.pc \in {"idle", "ret"}
    /\ LiveLoops = {}
    /\ LiveWorkers = {}
    /\ LiveFinals = {}

\* C1: after stop() is called while Running, every connected bulb of the set
\* receives a device colour command for the shutdown colour (127,110,75):
\* once the coordinator is stopped and no thread is left to send anything,
\* set_color has been called with that colour on every connected bulb of
\* every set that was stopped.
C1_ShutdownColorReachesEveryBulb == (~running /\ AtRest) => owed = {}

\* C2: update_bulbs called while Running completes the full stop, the
\* shutdown-colour dispatch included, before the bulb set is replaced: at the
\* assignment no set_final_colors thread, dispatch thread or loop is alive.
C2_StopCompleteBeforeSwap ==
    (caller.pc = "ub_assign" /\ caller.was)
        => (LiveFinals = {} /\ LiveWorkers = {} /\ LiveLoops = {})

\* C3: start() is a no-op when already Running: at most one run_update_loop
\* thread is alive at any time.
C3_AtMostOneLoop == Cardinality(LiveLoops) <= 1

\* C4: update_bulbs preserves Running/Stopped: when it returns, running is
\* what it was at the call, and a call made while Stopped spawned no loop.
C4_UpdateBulbsPreservesState ==
    (caller.pc = "ret" /\ caller.op = "update_bulbs")
        => (running = caller.was /\ (~caller.was => LiveLoops = {}))

\* C18: at the moment update_bulbs assigns the new bulb set no
\* run_update_loop thread is alive, also when the stop() inside update_bulbs
\* gave up waiting on its timeout.
C18_NoLoopAtSwap == caller.pc = "ub_assign" => LiveLoops = {}

\* C19: after stop() with no later start(), no command carrying a sampled
\* screen colour is issued to a bulb after that bulb's shutdown-colour command:
\* once the one stop() of a started coordinator has returned, no dispatch
\* thread issues a command of another colour to a bulb whose last completed
\* command carried the shutdown colour.
C19_ShutdownColorIsLast ==
    [][(/\ calls = 2
        /\ caller = Returned("stop", None, TRUE)
        /\ caller' = caller)
       => \A w \in 1..MaxDispatch :
              (/\ workers[w].pc = "enter"
               /\ workers'[w].pc = "send"
               /\ workers[w].color # ShutdownColor)
              => last_color[workers[w].bulb] # ShutdownColor]_vars

\* C20: stop() called on a Coordinator that was constructed but never started
\* completes without raising and leaves running = false.
C20_StopBeforeStart ==
    (caller.op = "stop" /\ ~caller.was /\ update_thread = Unset)
        => (caller.pc = "ret" /\ ~running)

(***************************************************************************)
(* Properties of a tick (SpecTick)                                         *)
(***************************************************************************)
\* C5: a failed set_color command is caught inside that bulb's call: no
\* exception leaves set_color, the loop stays alive while running, and a tick
\* that was not abandoned for a sampling error dispatched every bulb of the set.
C5_FailureIsolation ==
    /\ ~escaped
    /\ \A l \in 1..MaxLoops :
         /\ (running /\ update_thread = {l}) => loops[l] # NoThread
         /\ ticklog[l].tick = "done" =>
              /\ Len(ticklog[l].log) = Len(bulbs)
              /\ \A i \in 1..Len(bulbs) : ticklog[l].log[i].bulb = bulbs[i]

\* C5, its case: the command of the tick's first bulb has raised, and the
\* tick went on to dispatch the other bulbs
C5_FailedBulbTickCompleted ==
    \E w \in 1..MaxDispatch : \E l \in 1..MaxLoops :
        /\ workers[w].pc = "except"
        /\ workers[w].bulb = bulbs[1]
        /\ ticklog[l].tick = "done"
        /\ ticklog[l].log[1].color = workers[w].color
        /\ loops[l] # NoThread

\* C8: a shooter tick samples once, zone 'center', and dispatches that one
\* brightness-scaled colour to every bulb; a normal tick samples for each bulb
\* its own placement zone and dispatches to it the scaled colour of that sample.
C8_TickSampling ==
    \A l \in 1..MaxLoops :
        LET t == ticklog[l]
        IN t.tick = "done" =>
             /\ Len(t.log) = Len(bulbs)
             /\ \A i \in 1..Len(t.log) :
                  /\ t.log[i].bulb = bulbs[i]
                  /\ t.log[i].color = Scaled[t.log[i].raw][brightness]
                  /\ IF t.tmode = "shooter"
                     THEN /\ t.log[i].zone = "center"
                          /\ t.log[i].raw = t.center
                          /\ t.log[i].color = t.log[1].color
                     ELSE t.log[i].zone = Placement(bulbs[i])
             /\ t.samples = IF t.tmode = "shooter" THEN 1 ELSE Len(bulbs)

\* C8, its case: a normal tick has dispatched different colours to two bulbs
\* of different placements
C8_NormalTickDiffers ==
    \E l \in 1..MaxLoops :
        /\ ticklog[l].tick = "done"
        /\ ticklog[l].tmode = "normal"
        /\ ticklog[l].log[1].zone # ticklog[l].log[2].zone
        /\ ticklog[l].log[1].color # ticklog[l].log[2].color

\* C15: within one tick, in normal as in shooter mode, the colours dispatched
\* to all bulbs are scaled with one and the same brightness, whenever
\* set_brightness is called.
C15_OneBrightnessPerTick ==
    \A l \in 1..MaxLoops :
        LET t == ticklog[l]
        IN t.tick = "done" =>
             \E p \in 1..100 :
                 \A i \in 1..Len(t.log) : t.log[i].color = Scaled[t.log[i].raw][p]

\* C16: for one bulb, a device command carrying the colour of a tick is never
\* issued after a device command carrying the colour of a later tick.
C16_NoReordering ==
    [][\A w \in 1..MaxDispatch :
          (/\ workers[w].pc = "enter"
           /\ workers'[w].pc = "send"
           /\ workers[w].stale)
          => ~\E v \in 1..MaxDispatch :
                 /\ workers[v].pc \in {"send", "except"}
                 /\ workers[v].bulb = workers[w].bulb
                 /\ ~workers[v].stale]_vars

\* C17: at every moment at most one dispatch thread (a set_color call with its
\* device command) is alive per bulb.
C17_OneDispatchPerBulb ==
    \A b \in Bulbs :
        Cardinality({w \in LiveWorkers : workers[w].bulb = b}) <= 1

(***************************************************************************)
(* Properties of set_color called twice and more (SpecBulb)                *)
(***************************************************************************)
\* the call that has returned repeats the call before it: same connected
\* bulb, same colour
RepeatedCall ==
    /\ call.pc = "done"
    /\ call.prev.pc = "done"
    /\ call.prev.bulb = call.bulb
    /\ call.prev.color = call.color
    /\ Connected(call.bulb)

C7_RateLimitGate ==
    /\ (call.pc = "send" \/ (call.pc = "done" /\ call.cmds = 1))
           => call.limit = "ready"
    /\ (call.pc = "done" /\ call.limit = "cooling")
           => /\ call.cmds = 0
              /\ last_color[call.bulb] = call.entry
              /\ LiveWorkers = {} /\ LiveLoops = {} /\ LiveFinals = {}
    /\ call.pc \in {"enter", "send"} => last_color[call.bulb] = call.entry
    /\ (call.pc = "done" /\ last_color[call.bulb] # call.entry) => call.cmds = 1

\* C7, its case: a call with a new colour on a connected bulb was denied by
\* the bulb's rate limiter, right after a call that sent another colour
C7_DeniedCall ==
    /\ call.pc = "done"
    /\ call.outcome = "denied"
    /\ call.limit = "cooling"
    /\ call.prev.pc = "done"
    /\ call.prev.bulb = call.bulb
    /\ call.prev.oks = 1
    /\ call.color # call.entry

C9_BrightnessClamped ==
    /\ brightness \in 1..100
    /\ unit.pc = "none" => brightness = 100
    /\ unit.pc = "set" =>
         /\ brightness = (IF unit.arg < 1 THEN 1
                          ELSE IF unit.arg > 100 THEN 100 ELSE unit.arg)
         /\ unit.arg = 0 => brightness = 1
         /\ unit.arg = 150 => brightness = 100

\* C9, its case: set_brightness(0) has stored 1
C9_ZeroStoredAsOne == unit.pc = "set" /\ unit.arg = 0 /\ brightness = 1

\* C10: apply_brightness returns floor(channel * p / 100) for each channel,
\* each an integer in [0,255], and brightness 50 on (255,220,150) gives
\* (127,110,75).
C10_FloorOfProduct ==
    unit.pc = "applied" =>
        /\ \A i \in 1..3 :
             /\ unit.val[i] = (unit.arg[i] * brightness) \div 100
             /\ unit.val[i] \in Channels
        /\ (brightness = 50 /\ unit.arg = <<255, 220, 150>>)
               => unit.val = <<127, 110, 75>>

(***************************************************************************)
(* Properties of a bulb that never connected (SpecDevice)                  *)
(***************************************************************************)
\* C11: on a bulb whose connect() failed on every attempt, set_color,
\* set_brightness, turn_on, turn_off and status never raise, issue no device
\* command, leave last_color and the rate limiter as constructed, and status
\* returns None.
C11_UnconnectedBulbIsInert ==
    /\ ~escaped
    /\ \A b \in Bulbs :
         device[b] = "none" => (last_color[b] = NoColor /\ limiter[b] = "ready")
    /\ (call.pc # "none" /\ device[call.bulb] = "none") =>
         /\ call.pc \in {"enter", "done"}
         /\ call.cmds = 0
         /\ call.ret = None

\* C11, its case: status has returned None on a bulb that never connected,
\* right after a set_color call on it
C11_StatusOfUnconnectedBulb ==
    /\ call.pc = "done"
    /\ call.op = "status"
    /\ device[call.bulb] = "none"
    /\ call.ret = None
    /\ call.prev.pc = "done"
    /\ call.prev.bulb = call.bulb
    /\ call.prev.color # NoColor

(***************************************************************************)
(* Properties of the loop and of stop() over time (SpecLoopFair,           *)
(* SpecStopFair)                                                           *)
(***************************************************************************)
\* C12: an error raised during a tick never ends the loop: a loop thread ends
\* only in a step that finds running false, a tick abandoned for an error
\* leaves its loop alive, and while running stays true the loop always goes on
\* to begin a further tick.
C12_LoopSurvivesErrors ==
    /\ [][\A l \in 1..MaxLoops :
            (loops[l] # NoThread /\ loops'[l] = NoThread) => ~running]_vars
    /\ [](\A l \in 1..MaxLoops : ticklog[l].tick = "aborted" => loops[l] # NoThread)
    /\ \A l \in 1..MaxLoops : \A p \in BOOLEAN :
         (loops[l] # NoThread /\ ticklog[l].odd = p)
             ~> (~running \/ ticklog[l].odd # p)

\* C12, its case: the loop's second tick was abandoned for an error and the
\* loop is back at its test of running, which is true
C12_LoopAliveAfterError ==
    \E l \in 1..MaxLoops :
        /\ running
        /\ ticklog[l].tick = "aborted"
        /\ ~ticklog[l].odd
        /\ loops[l].pc = "check"

\* C13: stop() called while Running returns, with running false, also when
\* the loop or a dispatch thread never ends, and without waiting for the
\* set_final_colors thread.
C13_StopReturns ==
    /\ []((caller.pc = "ret" /\ caller.op = "stop") => ~running)
    /\ (caller.pc = "stop_join" /\ caller.was) ~> (caller.pc = "ret")

\* C13, its case: stop() has returned while the loop, a dispatch thread and
\* the set_final_colors thread are still alive
C13_StopReturnedThreadsAlive ==
    /\ caller.pc = "ret"
    /\ caller.op = "stop"
    /\ caller.was
    /\ ~running
    /\ LiveLoops # {}
    /\ LiveWorkers # {}
    /\ LiveFinals # {}

====
